---------------------------- MODULE Spec2Model ----------------------------
(***************************************************************************)
(* cgid (src/lib.rs): a stdin/stdout bridge from an inetd-style HTTP       *)
(* connection to a CGI/1.1 child process.                                 *)
(*                                                                         *)
(* Text is modelled as sequences of one-character strings, byte streams   *)
(* as sequences of the same characters.  Every parser is computed         *)
(* character by character, as the source's loops do.                      *)
(***************************************************************************)
EXTENDS Naturals, Sequences, FiniteSets, TLC

VARIABLES
    pc,             \* the stage main() has reached (or the unit under call)
    exit_status,    \* "running", or the exit status: "0", "1", "101" (panic)
    environ,        \* the process environment: key -> value
    content_length, \* main's `content_length` (lib.rs:229)
    stdin,          \* bytes of standard input not yet consumed
    stdin0,         \* history: standard input as it was at process start
    line,           \* the line most recently handed to a parser
    parsed,         \* the most recent parse_header result
    result,         \* the most recent set_header / copy_exact result
    spawned,        \* whether the child process was spawned
    child_stdin,    \* bytes the parent has written to the child's stdin pipe
    child_out,      \* bytes of the child's stdout not yet read by the parent
    child_out0,     \* history: everything the child emits on its stdout
    stdout,         \* bytes written to standard output
    in_pipe,        \* bytes held by the pipe to the child's stdin
    out_pipe,       \* bytes held by the pipe from the child's stdout
    child_prog,     \* the child's program: the phases it runs through
    child_pc        \* the phase the child is in; past the last one it has exited

\* the two pipes and the child at their far ends, followed step by step
pipes == <<in_pipe, out_pipe, child_prog, child_pc>>

vars == <<pc, exit_status, environ, content_length, stdin, stdin0, line, parsed,
          result, spawned, child_stdin, child_out, child_out0, stdout,
          in_pipe, out_pipe, child_prog, child_pc>>

---------------------------------------------------------------------------
(* Characters and text helpers *)

CR == "\r"
LF == "\n"
SP == " "

Lower == <<"a","b","c","d","e","f","g","h","i","j","k","l","m",
           "n","o","p","q","r","s","t","u","v","w","x","y","z">>
Upper == <<"A","B","C","D","E","F","G","H","I","J","K","L","M",
           "N","O","P","Q","R","S","T","U","V","W","X","Y","Z">>

\* char::to_uppercase on the ASCII range
to_uppercase_char(c) ==
    IF \E i \in 1..Len(Lower) : Lower[i] = c
    THEN Upper[CHOOSE i \in 1..Len(Lower) : Lower[i] = c]
    ELSE c

\* String::to_uppercase
to_uppercase(s) == [i \in 1..Len(s) |-> to_uppercase_char(s[i])]

\* str::replace("-", "_")
replace_dash(s) == [i \in 1..Len(s) |-> IF s[i] = "-" THEN "_" ELSE s[i]]

Take(s, n) == SubSeq(s, 1, IF n < Len(s) THEN n ELSE Len(s))
Drop(s, n) == SubSeq(s, (IF n < Len(s) THEN n ELSE Len(s)) + 1, Len(s))
Contains(s, c) == \E i \in 1..Len(s) : s[i] = c
IsPrefix(p, s) == Len(p) <= Len(s) /\ SubSeq(s, 1, Len(p)) = p

RECURSIVE Concat(_)
Concat(ss) == IF ss = <<>> THEN <<>> ELSE Head(ss) \o Concat(Tail(ss))

\* all sequences over S of length at most n
RECURSIVE SeqsUpTo(_, _)
SeqsUpTo(S, n) ==
    IF n = 0 THEN {<<>>}
    ELSE LET shorter == SeqsUpTo(S, n - 1)
         IN  shorter \cup {Append(s, c) : s \in shorter, c \in S}

---------------------------------------------------------------------------
(* Literals of the source *)

HTTP_10 == <<"H","T","T","P","/","1",".","0"," ">>
CRLF == <<CR, LF>>
S400 == <<"4","0","0"," ","I","n","v","a","l","i","d"," ","H","e","a","d","e","r">>
S500 == <<"5","0","0"," ","I","n","t","e","r","n","a","l"," ","S","e","r","v","e","r",
          " ","E","r","r","o","r">>
HTTP_ == <<"H","T","T","P","_">>
K_CONTENT_TYPE == <<"C","O","N","T","E","N","T","_","T","Y","P","E">>
K_CONTENT_LENGTH == <<"C","O","N","T","E","N","T","_","L","E","N","G","T","H">>
K_STATUS == <<"S","T","A","T","U","S">>

---------------------------------------------------------------------------
(* parse_header (lib.rs:68-106) *)

\* The `for c in line.chars()` loop: `i` is the position of the next
\* character, `state` the Header state, `key`/`value` the accumulators.
RECURSIVE parse_header_loop(_, _, _, _, _, _)
parse_header_loop(l, i, state, key, value, valid) ==
    IF i > Len(l)
    THEN [key |-> key, value |-> value, valid |-> valid]
    ELSE LET c == l[i] IN
         CASE state = "Key" ->
                IF c = ":"
                THEN parse_header_loop(l, i + 1, "WS", key, value, TRUE)
                ELSE parse_header_loop(l, i + 1, "Key", Append(key, c), value, valid)
           [] state = "WS" ->
                IF c # SP
                THEN parse_header_loop(l, i + 1, "Value", key, Append(value, c), valid)
                ELSE parse_header_loop(l, i + 1, "WS", key, value, valid)
           [] state = "Value" ->
                IF c = CR
                THEN [key |-> key, value |-> value, valid |-> valid]
                ELSE parse_header_loop(l, i + 1, "Value", key, Append(value, c), valid)

NoParse == [ok |-> FALSE, key |-> <<>>, value |-> <<>>]

parse_header(l) ==
    LET r == parse_header_loop(l, 1, "Key", <<>>, <<>>, FALSE)
    IN  IF ~r.valid
        THEN NoParse
        ELSE [ok |-> TRUE,
              key |-> replace_dash(to_uppercase(r.key)),
              value |-> r.value]

---------------------------------------------------------------------------
(* set_header (lib.rs:131-151) *)

Digits == <<"0","1","2","3","4","5","6","7","8","9">>
IsDigit(c) == \E i \in 1..Len(Digits) : Digits[i] = c
DigitVal(c) == (CHOOSE i \in 1..Len(Digits) : Digits[i] = c) - 1

RECURSIVE DecimalValue(_)
DecimalValue(ds) ==
    IF ds = <<>> THEN 0
    ELSE 10 * DecimalValue(SubSeq(ds, 1, Len(ds) - 1)) + DigitVal(ds[Len(ds)])

\* usize::MAX of a 64-bit target, 18446744073709551615, as a numeral
USIZE_MAX ==
    <<"1","8","4","4","6","7","4","4","0","7","3","7","0","9","5","5","1","6","1","5">>

RECURSIVE StripLeadingZeros(_)
StripLeadingZeros(ds) ==
    IF Len(ds) > 1 /\ Head(ds) = "0" THEN StripLeadingZeros(Tail(ds)) ELSE ds

\* a <= b for numerals of equal length, digit by digit from the left
RECURSIVE NumeralLeqSameLen(_, _)
NumeralLeqSameLen(a, b) ==
    IF a = <<>> THEN TRUE
    ELSE IF DigitVal(Head(a)) # DigitVal(Head(b))
    THEN DigitVal(Head(a)) < DigitVal(Head(b))
    ELSE NumeralLeqSameLen(Tail(a), Tail(b))

\* the numeral ds denotes a number no larger than usize::MAX: the source's
\* checked multiply-and-add over the digits does not overflow
FitsUsize(ds) ==
    LET d == StripLeadingZeros(ds)
    IN  \/ Len(d) < Len(USIZE_MAX)
        \/ Len(d) = Len(USIZE_MAX) /\ NumeralLeqSameLen(d, USIZE_MAX)

\* str::parse::<usize>: an optional leading "+", then one or more decimal
\* digits and nothing else; a number above usize::MAX is an overflow error.
parse_usize(v) ==
    LET ds == IF v # <<>> /\ v[1] = "+" THEN Tail(v) ELSE v
    IN  IF ds # <<>> /\ (\A i \in 1..Len(ds) : IsDigit(ds[i])) /\ FitsUsize(ds)
        THEN [ok |-> TRUE, n |-> DecimalValue(ds)]
        ELSE [ok |-> FALSE, n |-> 0]

\* env::set_var panics on a key that is empty or holds "=" (or on a NUL,
\* which is outside the modelled alphabet)
set_var_panics(k) == k = <<>> \/ Contains(k, "=")

set_var(e, k, v) == [x \in DOMAIN e \cup {k} |-> IF x = k THEN v ELSE e[x]]

\* faulty variant: Content-Type is not special-cased
env_key_no_content_type(key) ==
    LET k == HTTP_ \o key
    IN  IF k = HTTP_ \o K_CONTENT_LENGTH THEN K_CONTENT_LENGTH ELSE k

\* the key set_header stores a parsed header under (lib.rs:136-142)
env_key(key) ==
    LET k == HTTP_ \o key
    IN  IF k = HTTP_ \o K_CONTENT_TYPE THEN K_CONTENT_TYPE
        ELSE IF k = HTTP_ \o K_CONTENT_LENGTH THEN K_CONTENT_LENGTH
        ELSE k

\* faulty variant: a line without a colon is skipped
set_header_skips_malformed(l, e, cl) ==
    LET p == parse_header(l) IN
    IF ~p.ok
    THEN [res |-> "Ok", env |-> e, cl |-> cl]
    ELSE LET k == env_key(p.key)
             n == parse_usize(p.value)
             is_cl == (HTTP_ \o p.key = HTTP_ \o K_CONTENT_LENGTH)
         IN  IF is_cl /\ ~n.ok
             THEN [res |-> "Err400", env |-> e, cl |-> cl]
             ELSE IF set_var_panics(k)
             THEN [res |-> "Panic", env |-> e, cl |-> cl]
             ELSE [res |-> "Ok", env |-> set_var(e, k, p.value),
                   cl |-> IF is_cl THEN n.n ELSE cl]

\* faulty variant: the variable is set before the Content-Length value is checked
set_header_sets_first(l, e, cl) ==
    LET p == parse_header(l) IN
    IF ~p.ok
    THEN [res |-> "Err400", env |-> e, cl |-> cl]
    ELSE LET k == env_key(p.key)
             n == parse_usize(p.value)
             is_cl == (HTTP_ \o p.key = HTTP_ \o K_CONTENT_LENGTH)
         IN  IF set_var_panics(k)
             THEN [res |-> "Panic", env |-> e, cl |-> cl]
             ELSE IF is_cl /\ ~n.ok
             THEN [res |-> "Err400", env |-> set_var(e, k, p.value), cl |-> cl]
             ELSE [res |-> "Ok", env |-> set_var(e, k, p.value),
                   cl |-> IF is_cl THEN n.n ELSE cl]

\* faulty variant: the parsed length is not stored
set_header_keeps_length(l, e, cl) ==
    LET p == parse_header(l) IN
    IF ~p.ok
    THEN [res |-> "Err400", env |-> e, cl |-> cl]
    ELSE LET k == env_key(p.key)
             n == parse_usize(p.value)
             is_cl == (HTTP_ \o p.key = HTTP_ \o K_CONTENT_LENGTH)
         IN  IF is_cl /\ ~n.ok
             THEN [res |-> "Err400", env |-> e, cl |-> cl]
             ELSE IF set_var_panics(k)
             THEN [res |-> "Panic", env |-> e, cl |-> cl]
             ELSE [res |-> "Ok", env |-> set_var(e, k, p.value), cl |-> cl]

\* set_header(line, &mut content_length): the outcome ("Ok", "Err400" or
\* "Panic"), the environment and content_length it leaves
set_header(l, e, cl) ==
    LET p == parse_header(l) IN
    IF ~p.ok
    THEN [res |-> "Err400", env |-> e, cl |-> cl]
    ELSE LET k == env_key(p.key)
             n == parse_usize(p.value)
             is_cl == (HTTP_ \o p.key = HTTP_ \o K_CONTENT_LENGTH)
         IN  IF is_cl /\ ~n.ok
             THEN [res |-> "Err400", env |-> e, cl |-> cl]
             ELSE LET cl2 == IF is_cl THEN n.n ELSE cl
                  IN  IF set_var_panics(k)
                      THEN [res |-> "Panic", env |-> e, cl |-> cl2]
                      ELSE [res |-> "Ok", env |-> set_var(e, k, p.value), cl |-> cl2]

---------------------------------------------------------------------------
(* set_request (lib.rs:160-211) *)

RECURSIVE set_request_loop(_, _, _, _, _, _, _)
set_request_loop(l, i, state, method, path_info, query_string, server_protocol) ==
    LET fields == [method |-> method, path_info |-> path_info,
                   query_string |-> query_string,
                   server_protocol |-> server_protocol]
    IN
    IF i > Len(l) THEN fields
    ELSE LET c == l[i] IN
         CASE state = "Method" ->
                IF c = SP
                THEN set_request_loop(l, i + 1, "PathInfo", method, path_info,
                                      query_string, server_protocol)
                ELSE set_request_loop(l, i + 1, "Method", Append(method, c), path_info,
                                      query_string, server_protocol)
           [] state = "PathInfo" ->
                IF c = "?"
                THEN set_request_loop(l, i + 1, "QueryString", method, path_info,
                                      query_string, server_protocol)
                ELSE IF c = SP
                THEN set_request_loop(l, i + 1, "Protocol", method, path_info,
                                      query_string, server_protocol)
                ELSE set_request_loop(l, i + 1, "PathInfo", method, Append(path_info, c),
                                      query_string, server_protocol)
           [] state = "QueryString" ->
                IF c = SP
                THEN set_request_loop(l, i + 1, "Protocol", method, path_info,
                                      query_string, server_protocol)
                ELSE set_request_loop(l, i + 1, "QueryString", method, path_info,
                                      Append(query_string, c), server_protocol)
           [] state = "Protocol" ->
                IF c = LF \/ c = CR
                THEN fields
                ELSE set_request_loop(l, i + 1, "Protocol", method, path_info,
                                      query_string, Append(server_protocol, c))

K_REQUEST_METHOD == <<"R","E","Q","U","E","S","T","_","M","E","T","H","O","D">>
K_SCRIPT_NAME == <<"S","C","R","I","P","T","_","N","A","M","E">>
K_PATH_INFO == <<"P","A","T","H","_","I","N","F","O">>
K_QUERY_STRING == <<"Q","U","E","R","Y","_","S","T","R","I","N","G">>
K_SERVER_PROTOCOL == <<"S","E","R","V","E","R","_","P","R","O","T","O","C","O","L">>

\* faulty variant: QUERY_STRING is left alone when the line has no query
set_request_keeps_query(l, e) ==
    LET f == set_request_loop(l, 1, "Method", <<>>, <<>>, <<>>, <<>>)
        e1 == set_var(e, K_REQUEST_METHOD, f.method)
        e2 == set_var(e1, K_SCRIPT_NAME, <<>>)
        e3 == set_var(e2, K_PATH_INFO, f.path_info)
        e4 == IF f.query_string = <<>> THEN e3
              ELSE set_var(e3, K_QUERY_STRING, f.query_string)
    IN  set_var(e4, K_SERVER_PROTOCOL, f.server_protocol)

\* the environment set_request leaves (lib.rs:206-210)
set_request(l, e) ==
    LET f == set_request_loop(l, 1, "Method", <<>>, <<>>, <<>>, <<>>)
        e1 == set_var(e, K_REQUEST_METHOD, f.method)
        e2 == set_var(e1, K_SCRIPT_NAME, <<>>)
        e3 == set_var(e2, K_PATH_INFO, f.path_info)
        e4 == set_var(e3, K_QUERY_STRING, f.query_string)
    IN  set_var(e4, K_SERVER_PROTOCOL, f.server_protocol)

---------------------------------------------------------------------------
(* Line reads of the standard library, as main uses them *)

\* position of the first LF of s, or 0
FirstLF(s) ==
    IF Contains(s, LF) THEN CHOOSE i \in 1..Len(s) : s[i] = LF /\ ~Contains(Take(s, i - 1), LF)
    ELSE 0

\* faulty variant: a reader of its own that buffers, and so swallows, what follows
read_line_greedy(s) ==
    LET n == FirstLF(s)
    IN  IF n = 0 THEN [line |-> s, rest |-> <<>>]
        ELSE [line |-> Take(s, n), rest |-> <<>>]

\* BufRead::read_line (lib.rs:233, 295): the bytes up to and including the
\* first LF, or everything left when there is none; `rest` is what stays
\* in the stream
read_line(s) ==
    LET n == FirstLF(s)
    IN  IF n = 0 THEN [line |-> s, rest |-> <<>>]
        ELSE [line |-> Take(s, n), rest |-> Drop(s, n)]

\* one item of BufRead::lines (lib.rs:243): none at end of input, else the
\* next line without its LF or CR LF
lines_next(s) ==
    LET r == read_line(s)
        l == r.line
        l1 == IF l # <<>> /\ l[Len(l)] = LF THEN Take(l, Len(l) - 1) ELSE l
        l2 == IF l1 # l /\ l1 # <<>> /\ l1[Len(l1)] = CR THEN Take(l1, Len(l1) - 1) ELSE l1
    IN  [some |-> l # <<>>, line |-> l2, rest |-> r.rest]

---------------------------------------------------------------------------
(* copy_exact (lib.rs:323-338) *)

\* The source's 64 * 1024 (lib.rs:325), scaled to the stream lengths modelled.
BUFFER_SIZE == 2

\* `room` is the number of bytes the writer still accepts before write_all
\* fails (a pipe whose reader has gone away).  read_exact on a reader that
\* runs out consumes what was left and fails; write_all that fails has
\* written what the writer accepted.
RECURSIVE copy_exact_loop(_, _, _, _)
copy_exact_loop(reader, writer, buffer_left, room) ==
    LET want == IF buffer_left > BUFFER_SIZE THEN BUFFER_SIZE ELSE buffer_left
    IN  IF Len(reader) < want
        THEN [res |-> "UnexpectedEof", reader |-> <<>>, writer |-> writer]
        ELSE IF room < want
        THEN [res |-> "WriteFailed", reader |-> Drop(reader, want),
              writer |-> writer \o Take(reader, room)]
        ELSE IF buffer_left > BUFFER_SIZE
        THEN copy_exact_loop(Drop(reader, want), writer \o Take(reader, want),
                             buffer_left - BUFFER_SIZE, room - want)
        ELSE [res |-> "Ok", reader |-> Drop(reader, want),
              writer |-> writer \o Take(reader, want)]

\* faulty variant: the remainder after the last full buffer is not relayed
copy_exact_no_remainder(reader, writer, length, room) ==
    IF length > BUFFER_SIZE
    THEN copy_exact_loop(reader, writer, length - (length % BUFFER_SIZE), room)
    ELSE copy_exact_loop(reader, writer, length, room)

copy_exact(reader, writer, length, room) ==
    copy_exact_loop(reader, writer, length, room)

---------------------------------------------------------------------------
(* Inputs of the process: environment, standard input, the child's output *)

MaxHeaders == 2     \* header lines of a request
MaxBody == 3        \* bytes following the header section
MaxChildLines == 2  \* lines of child output ahead of its last part

K_TCPLOCALIP == <<"T","C","P","L","O","C","A","L","I","P">>
K_TCPLOCALPORT == <<"T","C","P","L","O","C","A","L","P","O","R","T">>
K_GATEWAY_INTERFACE == <<"G","A","T","E","W","A","Y","_","I","N","T","E","R","F","A","C","E">>
K_SERVER_SOFTWARE == <<"S","E","R","V","E","R","_","S","O","F","T","W","A","R","E">>
K_SERVER_NAME == <<"S","E","R","V","E","R","_","N","A","M","E">>
K_SERVER_PORT == <<"S","E","R","V","E","R","_","P","O","R","T">>

EmptyEnv == [k \in {} |-> <<>>]

\* the environment the supervisor hands over: TCPLOCALIP and TCPLOCALPORT
\* are each present or absent
InitialEnvs ==
    {[k \in ks |-> IF k = K_TCPLOCALIP THEN <<"1","0",".","0",".","0",".","7">> ELSE <<"8","0","8","0">>] :
        ks \in SUBSET {K_TCPLOCALIP, K_TCPLOCALPORT}}

RequestLines ==
    { <<"G","E","T",SP,"/","f","o","o","?","x","=","1",SP,"H","T","T","P","/","1",".","0",CR,LF>>,
      <<"P",SP,"/","p",SP,"H",LF>> }

HeaderLines ==
    { <<"a",":",SP,"b",CR,LF>>,
      <<"C","o","n","t","e","n","t","-","L","e","n","g","t","h",":",SP,"0",CR,LF>>,
      <<"C","o","n","t","e","n","t","-","L","e","n","g","t","h",":",SP,"3",CR,LF>>,
      <<"c","o","n","t","e","n","t","-","l","e","n","g","t","h",":","1",LF>>,
      <<"C","o","n","t","e","n","t","-","L","e","n","g","t","h",":",SP,"x",CR,LF>>,
      <<"o","o","p","s",CR,LF>>,
      <<"a","=","b",":",SP,"c",CR,LF>> }

BodyStream == <<"x",LF,"y",":","z",SP,CR,"w">>
Bodies == {Take(BodyStream, n) : n \in 0..MaxBody}

\* what follows the header lines: end of input, or a blank line and a body
Endings == {<<>>} \cup {t \o b : t \in {CRLF, <<LF>>}, b \in Bodies}

\* Content-Length values at the edges of str::parse::<usize>: two digits,
\* one more than usize::MAX, a leading "+", a leading zero, a minus sign
LengthValues ==
    { <<"4","2">>,
      <<"1","8","4","4","6","7","4","4","0","7","3","7","0","9","5","5","1","6","1","6">>,
      <<"+","1">>,
      <<"0","2">>,
      <<"-","1">> }

LengthStdins ==
    {<<"P",SP,"/","p",SP,"H",LF>>
        \o <<"C","o","n","t","e","n","t","-","L","e","n","g","t","h",":",SP>> \o v
        \o CRLF \o CRLF \o <<"x","y">> : v \in LengthValues}

\* A request line, header lines and an ending: every header sequence after
\* the first request line, every request line without headers; and input
\* that ends before or inside the request line.
Stdins ==
    {<<"G","E","T",SP,"/","f","o","o","?","x","=","1",SP,"H","T","T","P","/","1",".","0",CR,LF>> \o Concat(hs) \o tb :
        hs \in SeqsUpTo(HeaderLines, MaxHeaders), tb \in Endings}
    \cup {rl \o tb : rl \in RequestLines, tb \in Endings}
    \cup {<<>>, <<"G","E","T",SP,"/">>}
    \cup LengthStdins

\* the request of the end-to-end scenario
ScenarioStdin == <<"G","E","T",SP,"/","f","o","o","?","x","=","1",SP,"H","T","T","P","/","1",".","0",CR,LF,"C","o","n","t","e","n","t","-","L","e","n","g","t","h",":",SP,"0",CR,LF,CR,LF>>

\* (environment, standard input) at process start: every input without the
\* supervisor's variables, the scenario's input with each combination of them
Inputs ==
    {<<EmptyEnv, i>> : i \in Stdins}
    \cup {<<e, i>> : e \in InitialEnvs, i \in {ScenarioStdin, <<>>}}

ChildLines ==
    { <<"S","t","a","t","u","s",":",SP,"2","0","0",SP,"O","K",CR,LF>>,
      <<"s","t","a","t","u","s",":","2",LF>>,
      <<"X","-","a",":",SP,"y",CR,LF>>,
      <<"o","o","p","s",LF>> }

ChildTails ==
    { <<>>,
      <<CR,LF,"h","e","l","l","o">>,
      <<"S","t","a","t","u","s",":",SP,"3">> }

ChildOutputs ==
    {Concat(ls) \o t : ls \in SeqsUpTo(ChildLines, MaxChildLines), t \in ChildTails}

\* What the child emits does not depend on the request: every output is
\* paired with the scenario's request and with input that ends at once,
\* three outputs with every other request.
ChildOutputsFor(input) ==
    IF input \in {ScenarioStdin, <<>>}
    THEN ChildOutputs
    ELSE { <<"S","t","a","t","u","s",":",SP,"2","0","0",SP,"O","K",CR,LF,CR,LF,"h","e","l","l","o">>,
           <<"s","t","a","t","u","s",":","2",LF,"h","i">>,
           <<"X","-","a",":",SP,"y",CR,LF>> }

---------------------------------------------------------------------------
(* main (lib.rs:213-321) *)

Init ==
    /\ pc = "start"
    /\ exit_status = "running"
    /\ \E input \in Inputs : environ = input[1] /\ stdin = input[2]
    /\ content_length = 0
    /\ stdin0 = stdin
    /\ line = <<>>
    /\ parsed = NoParse
    /\ result = "none"
    /\ spawned = FALSE
    /\ child_stdin = <<>>
    /\ child_out = <<>>
    /\ child_out0 = <<>>
    /\ stdout = <<>>
    /\ in_pipe = <<>> /\ out_pipe = <<>>
    /\ child_prog = <<>> /\ child_pc = 1

\* faulty variant: the line goes to the error stream, as a diagnostic does
early_exit_to_stderr(msg) ==
    /\ UNCHANGED stdout
    /\ exit_status' = "1"

\* early_exit (lib.rs:39-42): the status line, then exit(1)
early_exit(msg) ==
    /\ stdout' = stdout \o HTTP_10 \o msg \o CRLF
    /\ exit_status' = "1"

\* faulty variant: both defaults are used unless both variables are given
Start_joint_default ==
    /\ pc = "start" /\ exit_status = "running"
    /\ LET both == {K_TCPLOCALIP, K_TCPLOCALPORT} \subseteq DOMAIN environ
           name == IF both
                   THEN environ[K_TCPLOCALIP] ELSE <<"1","2","7",".","0",".","0",".","1">>
           port == IF both
                   THEN environ[K_TCPLOCALPORT] ELSE <<"8","0">>
           e1 == set_var(environ, K_GATEWAY_INTERFACE, <<"C","G","I","/","1",".","1">>)
           e2 == set_var(e1, K_SERVER_SOFTWARE, <<"c","g","i","d","/","0",".","1",".","0">>)
           e3 == set_var(e2, K_SERVER_NAME, name)
       IN  environ' = set_var(e3, K_SERVER_PORT, port)
    /\ pc' = "request"
    /\ UNCHANGED <<exit_status, content_length, stdin, stdin0, line, parsed, result,
                   spawned, child_stdin, child_out, child_out0, stdout>>
    /\ UNCHANGED pipes

\* lib.rs:214-225: the server-identity variables
Start ==
    /\ pc = "start" /\ exit_status = "running"
    /\ LET name == IF K_TCPLOCALIP \in DOMAIN environ
                   THEN environ[K_TCPLOCALIP] ELSE <<"1","2","7",".","0",".","0",".","1">>
           port == IF K_TCPLOCALPORT \in DOMAIN environ
                   THEN environ[K_TCPLOCALPORT] ELSE <<"8","0">>
           e1 == set_var(environ, K_GATEWAY_INTERFACE, <<"C","G","I","/","1",".","1">>)
           e2 == set_var(e1, K_SERVER_SOFTWARE, <<"c","g","i","d","/","0",".","1",".","0">>)
           e3 == set_var(e2, K_SERVER_NAME, name)
       IN  environ' = set_var(e3, K_SERVER_PORT, port)
    /\ pc' = "request"
    /\ UNCHANGED <<exit_status, content_length, stdin, stdin0, line, parsed, result,
                   spawned, child_stdin, child_out, child_out0, stdout>>
    /\ UNCHANGED pipes

\* lib.rs:232-239: the request line.  read_line returns Ok(0) at end of
\* input, which is no error.
ReadRequest ==
    /\ pc = "request" /\ exit_status = "running"
    /\ \/ /\ early_exit(S500)       \* the read fails
          /\ UNCHANGED <<pc, environ, stdin, line>>
       \/ LET r == read_line(stdin)
          IN  /\ line' = r.line
              /\ stdin' = r.rest
              /\ environ' = set_request(r.line, environ)
              /\ pc' = "headers"
              /\ UNCHANGED <<exit_status, stdout>>
    /\ UNCHANGED <<content_length, stdin0, parsed, result, spawned, child_stdin,
                   child_out, child_out0>>
    /\ UNCHANGED pipes

\* lib.rs:243-256: one turn of the header loop
ReadHeader ==
    /\ pc = "headers" /\ exit_status = "running"
    /\ \/ /\ early_exit(S500)       \* the read fails
          /\ UNCHANGED <<pc, environ, content_length, stdin, line, parsed, result>>
       \/ LET n == lines_next(stdin)
          IN  /\ stdin' = n.rest
              /\ IF ~n.some \/ n.line = <<>>
                 THEN \* end of input ends the loop, a blank line breaks it
                      /\ pc' = "spawn"
                      /\ line' = n.line
                      /\ UNCHANGED <<environ, content_length, parsed, result,
                                     exit_status, stdout>>
                 ELSE LET h == set_header(n.line, environ, content_length)
                      IN  /\ line' = n.line
                          /\ parsed' = parse_header(n.line)
                          /\ result' = h.res
                          /\ environ' = h.env
                          /\ content_length' = h.cl
                          /\ pc' = "headers"
                          /\ CASE h.res = "Ok" -> UNCHANGED <<exit_status, stdout>>
                               [] h.res = "Err400" -> early_exit(S400)
                               [] h.res = "Panic" ->
                                    exit_status' = "101" /\ UNCHANGED stdout
    /\ UNCHANGED <<stdin0, spawned, child_stdin, child_out, child_out0>>
    /\ UNCHANGED pipes

\* lib.rs:260-276: spawn the child named by argv[1] (taken to be given)
\* with both pipes and take its stdin.  What the child emits is its own
\* choice.
Spawn ==
    /\ pc = "spawn" /\ exit_status = "running"
    /\ \/ /\ early_exit(S500)       \* spawn fails
          /\ UNCHANGED <<pc, spawned, child_out, child_out0>>
       \/ /\ spawned' = TRUE        \* no stdin handle
          /\ early_exit(S500)
          /\ UNCHANGED <<pc, child_out, child_out0>>
       \/ /\ spawned' = TRUE
          /\ child_out0' \in ChildOutputsFor(stdin0)
          /\ child_out' = child_out0'
          /\ pc' = "body"
          /\ UNCHANGED <<exit_status, stdout>>
    /\ UNCHANGED <<environ, content_length, stdin, stdin0, line, parsed, result,
                   child_stdin>>
    /\ UNCHANGED pipes

\* lib.rs:278-291: relay content_length bytes to the child, then take its
\* stdout.  The child may stop accepting input after `room` bytes.
BodyRelay ==
    /\ pc = "body" /\ exit_status = "running"
    /\ \E room \in 0..content_length :
         LET c == copy_exact(stdin, child_stdin, content_length, room)
         IN  /\ stdin' = c.reader
             /\ child_stdin' = c.writer
             /\ result' = c.res
             /\ IF c.res # "Ok"
                THEN early_exit(S500) /\ UNCHANGED pc
                ELSE \/ early_exit(S500) /\ UNCHANGED pc    \* no stdout handle
                     \/ pc' = "scan" /\ UNCHANGED <<exit_status, stdout>>
    /\ UNCHANGED <<environ, content_length, stdin0, line, parsed, spawned,
                   child_out, child_out0>>
    /\ UNCHANGED pipes

\* faulty variant: the skipped headers are forwarded
ScanLine_forwards_skipped ==
    /\ pc = "scan" /\ exit_status = "running"
    /\ \/ /\ early_exit(S500)
          /\ UNCHANGED <<pc, child_out, line, parsed>>
       \/ LET r == read_line(child_out)
              p == parse_header(r.line)
          IN  /\ child_out' = r.rest
              /\ line' = r.line
              /\ parsed' = p
              /\ IF ~p.ok
                 THEN early_exit(S500) /\ UNCHANGED pc
                 ELSE IF p.key = K_STATUS
                 THEN /\ stdout' = stdout \o HTTP_10 \o p.value \o CRLF
                      /\ pc' = "relay"
                      /\ UNCHANGED exit_status
                 ELSE /\ stdout' = stdout \o r.line
                      /\ UNCHANGED <<pc, exit_status>>
    /\ UNCHANGED <<environ, content_length, stdin, stdin0, result, spawned,
                   child_stdin, child_out0>>
    /\ UNCHANGED pipes

\* faulty variant: output without a Status line is relayed under a default status
ScanLine_default_status ==
    /\ pc = "scan" /\ exit_status = "running"
    /\ \/ /\ early_exit(S500)
          /\ UNCHANGED <<pc, child_out, line, parsed>>
       \/ LET r == read_line(child_out)
              p == parse_header(r.line)
          IN  /\ child_out' = r.rest
              /\ line' = r.line
              /\ parsed' = p
              /\ IF ~p.ok
                 THEN /\ stdout' = stdout \o HTTP_10 \o <<"2","0","0">> \o CRLF
                      /\ pc' = "relay"
                      /\ UNCHANGED exit_status
                 ELSE IF p.key = K_STATUS
                 THEN /\ stdout' = stdout \o HTTP_10 \o p.value \o CRLF
                      /\ pc' = "relay"
                      /\ UNCHANGED exit_status
                 ELSE UNCHANGED <<pc, exit_status, stdout>>
    /\ UNCHANGED <<environ, content_length, stdin, stdin0, result, spawned,
                   child_stdin, child_out0>>
    /\ UNCHANGED pipes

\* faulty variant: the scan goes on after the status line is out
ScanLine_rescan ==
    /\ pc = "scan" /\ exit_status = "running"
    /\ \/ /\ early_exit(S500)
          /\ UNCHANGED <<pc, child_out, line, parsed>>
       \/ LET r == read_line(child_out)
              p == parse_header(r.line)
          IN  /\ child_out' = r.rest
              /\ line' = r.line
              /\ parsed' = p
              /\ IF ~p.ok
                 THEN early_exit(S500) /\ UNCHANGED pc
                 ELSE IF p.key = K_STATUS
                 THEN /\ stdout' = stdout \o HTTP_10 \o p.value \o CRLF
                      /\ UNCHANGED <<pc, exit_status>>
                 ELSE UNCHANGED <<pc, exit_status, stdout>>
    /\ UNCHANGED <<environ, content_length, stdin, stdin0, result, spawned,
                   child_stdin, child_out0>>
    /\ UNCHANGED pipes

\* faulty variant: the line after the Status line is swallowed with it
ScanLine_consumes_next ==
    /\ pc = "scan" /\ exit_status = "running"
    /\ \/ /\ early_exit(S500)
          /\ UNCHANGED <<pc, child_out, line, parsed>>
       \/ LET r == read_line(child_out)
              p == parse_header(r.line)
          IN  /\ line' = r.line
              /\ parsed' = p
              /\ IF ~p.ok
                 THEN early_exit(S500) /\ child_out' = r.rest /\ UNCHANGED pc
                 ELSE IF p.key = K_STATUS
                 THEN /\ stdout' = stdout \o HTTP_10 \o p.value \o CRLF
                      /\ child_out' = read_line(r.rest).rest
                      /\ pc' = "relay"
                      /\ UNCHANGED exit_status
                 ELSE child_out' = r.rest /\ UNCHANGED <<pc, exit_status, stdout>>
    /\ UNCHANGED <<environ, content_length, stdin, stdin0, result, spawned,
                   child_stdin, child_out0>>
    /\ UNCHANGED pipes

\* lib.rs:293-313: one turn of the Status scan
ScanLine ==
    /\ pc = "scan" /\ exit_status = "running"
    /\ \/ /\ early_exit(S500)       \* the read fails
          /\ UNCHANGED <<pc, child_out, line, parsed>>
       \/ LET r == read_line(child_out)
              p == parse_header(r.line)
          IN  /\ child_out' = r.rest
              /\ line' = r.line
              /\ parsed' = p
              /\ IF ~p.ok
                 THEN early_exit(S500) /\ UNCHANGED pc
                 ELSE IF p.key = K_STATUS
                 THEN /\ stdout' = stdout \o HTTP_10 \o p.value \o CRLF
                      /\ pc' = "relay"
                      /\ UNCHANGED exit_status
                 ELSE UNCHANGED <<pc, exit_status, stdout>>
    /\ UNCHANGED <<environ, content_length, stdin, stdin0, result, spawned,
                   child_stdin, child_out0>>
    /\ UNCHANGED pipes

\* faulty variant: a failure of the final relay is a diagnostic only
FinalRelay_diagnostic_only ==
    /\ pc = "relay" /\ exit_status = "running"
    /\ \/ /\ stdout' = stdout \o child_out
          /\ child_out' = <<>>
          /\ pc' = "done"
          /\ exit_status' = "0"
       \/ \E n \in 0..Len(child_out) :
            /\ stdout' = stdout \o Take(child_out, n)
            /\ exit_status' = "1"
            /\ child_out' = Drop(child_out, n)
            /\ UNCHANGED pc
    /\ UNCHANGED <<environ, content_length, stdin, stdin0, line, parsed, result,
                   spawned, child_stdin, child_out0>>
    /\ UNCHANGED pipes

\* lib.rs:314-320: io::copy of the rest of the child's output; when reading
\* it fails after n bytes, early_exit writes its line after them.  (Standard
\* output is taken to accept every write.)
FinalRelay ==
    /\ pc = "relay" /\ exit_status = "running"
    /\ \/ /\ stdout' = stdout \o child_out
          /\ child_out' = <<>>
          /\ pc' = "done"
          /\ exit_status' = "0"
       \/ \E n \in 0..Len(child_out) :
            /\ stdout' = stdout \o Take(child_out, n) \o HTTP_10 \o S500 \o CRLF
            /\ exit_status' = "1"
            /\ child_out' = Drop(child_out, n)
            /\ UNCHANGED pc
    /\ UNCHANGED <<environ, content_length, stdin, stdin0, line, parsed, result,
                   spawned, child_stdin, child_out0>>
    /\ UNCHANGED pipes

Next ==
    \/ Start
    \/ ReadRequest
    \/ ReadHeader
    \/ Spawn
    \/ BodyRelay
    \/ ScanLine
    \/ FinalRelay

Spec == Init /\ [][Next]_vars

---------------------------------------------------------------------------
(* set_header called on its own, as by the doc tests (lib.rs:118-129):      *)
(* any line, in an environment earlier calls have left                      *)

MaxValueLen == 3    \* characters after the colon of a line
MaxPrior == 1       \* calls that went before

HeaderNames ==
    { <<>>,
      <<"a">>,
      <<"X","-","b">>,
      <<"C","o","n","t","e","n","t","-","T","y","p","e">>,
      <<"c","o","n","t","e","n","t","-","l","e","n","g","t","h">>,
      <<"a","=","b">> }

ValueChars == {SP, CR, LF, ":", "x", "1"}

\* Name ":" rest, for every rest over ValueChars; and lines without a colon
HeaderInputs ==
    {n \o <<":">> \o v : n \in HeaderNames, v \in SeqsUpTo(ValueChars, MaxValueLen)}
    \cup {n \o v : n \in HeaderNames, v \in SeqsUpTo(ValueChars \ {":"}, 2)}
    \cup {<<"C","o","n","t","e","n","t","-","L","e","n","g","t","h",":",SP>> \o v :
            v \in LengthValues}

PriorLines ==
    { <<"a",":",SP,"o","l","d">>,
      <<"C","o","n","t","e","n","t","-","L","e","n","g","t","h",":",SP,"7">>,
      <<"C","o","n","t","e","n","t","-","T","y","p","e",":",SP,"t">> }

\* environment and content_length after set_header took each line of hs
RECURSIVE after_headers(_, _, _)
after_headers(hs, e, cl) ==
    IF hs = <<>> THEN [env |-> e, cl |-> cl]
    ELSE LET h == set_header(Head(hs), e, cl)
         IN  after_headers(Tail(hs), h.env, h.cl)

InitHeader ==
    /\ pc = "set_header"
    /\ exit_status = "running"
    /\ \E hs \in SeqsUpTo(PriorLines, MaxPrior) :
         LET a == after_headers(hs, EmptyEnv, 0)
         IN  environ = a.env /\ content_length = a.cl
    /\ line \in HeaderInputs
    /\ parsed = NoParse
    /\ result = "none"
    /\ stdin = <<>> /\ stdin0 = <<>>
    /\ spawned = FALSE
    /\ child_stdin = <<>> /\ child_out = <<>> /\ child_out0 = <<>>
    /\ stdout = <<>>
    /\ in_pipe = <<>> /\ out_pipe = <<>>
    /\ child_prog = <<>> /\ child_pc = 1

\* one call of set_header (lib.rs:131-151)
CallSetHeader ==
    /\ pc = "set_header"
    /\ LET h == set_header(line, environ, content_length)
       IN  /\ parsed' = parse_header(line)
           /\ result' = h.res
           /\ environ' = h.env
           /\ content_length' = h.cl
           /\ exit_status' = IF h.res = "Panic" THEN "101" ELSE exit_status
    /\ pc' = "returned"
    /\ UNCHANGED <<stdin, stdin0, line, spawned, child_stdin, child_out,
                   child_out0, stdout>>
    /\ UNCHANGED pipes

NextHeader == CallSetHeader

SpecHeader == InitHeader /\ [][NextHeader]_vars

---------------------------------------------------------------------------
(* copy_exact called on its own: a reader holding any bytes, any length,   *)
(* a writer that accepts every byte                                        *)

MaxSource == 5      \* bytes the reader holds
MaxLength == 5      \* the length asked for

InitCopy ==
    /\ pc = "copy_exact"
    /\ exit_status = "running"
    /\ environ = EmptyEnv
    /\ content_length \in 0..MaxLength
    /\ stdin \in SeqsUpTo({"x", "y"}, MaxSource)
    /\ stdin0 = stdin
    /\ line = <<>>
    /\ parsed = NoParse
    /\ result = "none"
    /\ spawned = FALSE
    /\ child_stdin = <<>> /\ child_out = <<>> /\ child_out0 = <<>>
    /\ stdout = <<>>
    /\ in_pipe = <<>> /\ out_pipe = <<>>
    /\ child_prog = <<>> /\ child_pc = 1

\* one call of copy_exact (lib.rs:323-338)
CallCopyExact ==
    /\ pc = "copy_exact"
    /\ LET c == copy_exact(stdin, child_stdin, content_length, content_length)
       IN  /\ stdin' = c.reader
           /\ child_stdin' = c.writer
           /\ result' = c.res
    /\ pc' = "returned"
    /\ UNCHANGED <<exit_status, environ, content_length, stdin0, line, parsed,
                   spawned, child_out, child_out0, stdout>>
    /\ UNCHANGED pipes

NextCopy == CallCopyExact

SpecCopy == InitCopy /\ [][NextCopy]_vars

---------------------------------------------------------------------------
(* set_request called on its own: a request line of either form, cut off   *)
(* at any point, in an environment that may hold an earlier request's      *)
(* variables                                                               *)

MaxField == 2       \* characters of a field of the request line

MethodTexts == SeqsUpTo({"G", "?"}, MaxField)
PathTexts == SeqsUpTo({"/"}, MaxField)
QueryTexts == SeqsUpTo({"x", "?"}, MaxField)
ProtocolTexts == SeqsUpTo({"H"}, MaxField)

\* METHOD SP PATH "?" QUERY SP PROTOCOL CR LF, and the same without a query
FullRequestLines ==
    {m \o <<SP>> \o p \o <<"?">> \o q \o <<SP>> \o r \o CRLF :
        m \in MethodTexts, p \in PathTexts, q \in QueryTexts, r \in ProtocolTexts}
    \cup {m \o <<SP>> \o p \o <<SP>> \o r \o CRLF :
        m \in MethodTexts, p \in PathTexts, r \in ProtocolTexts}

RequestInputs == UNION {{Take(l, n) : n \in 0..Len(l)} : l \in FullRequestLines}

\* the variables an earlier call left behind
EarlierRequestEnv ==
    set_request(<<"O",SP,"/","o","?","o","l","d",SP,"O",CR,LF>>, EmptyEnv)

InitRequest ==
    /\ pc = "set_request"
    /\ exit_status = "running"
    /\ environ \in {EmptyEnv, EarlierRequestEnv}
    /\ content_length = 0
    /\ line \in RequestInputs
    /\ parsed = NoParse
    /\ result = "none"
    /\ stdin = <<>> /\ stdin0 = <<>>
    /\ spawned = FALSE
    /\ child_stdin = <<>> /\ child_out = <<>> /\ child_out0 = <<>>
    /\ stdout = <<>>
    /\ in_pipe = <<>> /\ out_pipe = <<>>
    /\ child_prog = <<>> /\ child_pc = 1

\* one call of set_request (lib.rs:160-211); it returns nothing
CallSetRequest ==
    /\ pc = "set_request"
    /\ environ' = set_request(line, environ)
    /\ result' = "Ok"
    /\ pc' = "returned"
    /\ UNCHANGED <<exit_status, content_length, stdin, stdin0, line, parsed,
                   spawned, child_stdin, child_out, child_out0, stdout>>
    /\ UNCHANGED pipes

NextRequest == CallSetRequest

SpecRequest == InitRequest /\ [][NextRequest]_vars

---------------------------------------------------------------------------
(* Parent and child as two processes joined by two pipes of bounded       *)
(* capacity (lib.rs:266-321), from the moment the child has been spawned. *)
(* A write to a full pipe and a read from an empty pipe whose write end   *)
(* is open both block.  Here child_out is what the parent has not read    *)
(* yet: the bytes in out_pipe, then the bytes the child has yet to write; *)
(* `line` is the String that read_line is filling.                        *)

PipeCapacity == 9   \* bytes a pipe holds

Min(a, b) == IF a < b THEN a ELSE b

\* A child program is a sequence of phases: "read_body" reads the
\* CONTENT_LENGTH bytes announced, "read_to_eof" reads until end of input,
\* "write" writes the whole output.  After its last phase the child exits,
\* which closes its ends of both pipes.
ReadThenWrite == <<"read_body", "write">>
WriteThenRead == <<"write", "read_body">>
ReadToEofThenWrite == <<"read_to_eof", "write">>
WriteOnly == <<"write">>
ChildProgs == {ReadThenWrite, WriteThenRead, ReadToEofThenWrite, WriteOnly}

\* an output that fits a pipe, one that does not, and one whose first line
\* is no header
PipeChildOutputs ==
    { <<"S","t","a","t","u","s",":","2",LF>>,
      <<"S","t","a","t","u","s",":","2",LF,"h","i">>,
      <<"o","o","p","s",LF,"S","t","a","t","u","s",":","2",LF>> }

\* body lengths around the capacity of a pipe
PipeBodyLengths == {0, 1, PipeCapacity, PipeCapacity + 1}

ChildExited == child_pc > Len(child_prog)
ChildPhase == IF ChildExited THEN "exited" ELSE child_prog[child_pc]
Unwritten == Drop(child_out, Len(out_pipe))

\* c_stdin, the write end of the child's input pipe, is a local of main
\* (lib.rs:273) that copy_exact only borrows (lib.rs:278): it is dropped
\* when main returns, and closed with the process on early_exit
c_stdin_open == exit_status = "running"

\* the read end of the child's output pipe (lib.rs:287-291) likewise
c_stdout_open == exit_status = "running"

InitPipes ==
    /\ pc = "body"
    /\ exit_status = "running"
    /\ environ = EmptyEnv
    /\ content_length \in PipeBodyLengths
    /\ stdin = [i \in 1..content_length |-> "x"]
    /\ stdin0 = stdin
    /\ line = <<>>
    /\ parsed = NoParse
    /\ result = "none"
    /\ spawned = TRUE
    /\ child_stdin = <<>>
    /\ child_out0 \in PipeChildOutputs
    /\ child_out = child_out0
    /\ stdout = <<>>
    /\ in_pipe = <<>> /\ out_pipe = <<>>
    /\ child_prog \in ChildProgs
    /\ child_pc = 1

\* what is left of the chunk copy_exact is writing (lib.rs:329-336), after
\* w bytes of the body went out
ChunkLeft(w) == Min(BUFFER_SIZE - (w % BUFFER_SIZE), content_length - w)

\* faulty variant: the pipe to the child takes any number of bytes
ParentWrite_unbounded ==
    /\ pc = "body" /\ exit_status = "running"
    /\ Len(child_stdin) < content_length
    /\ ~ChildExited
    /\ LET k == ChunkLeft(Len(child_stdin))
       IN  /\ in_pipe' = in_pipe \o Take(stdin, k)
           /\ child_stdin' = child_stdin \o Take(stdin, k)
           /\ stdin' = Drop(stdin, k)
    /\ UNCHANGED <<pc, exit_status, environ, content_length, stdin0, line, parsed,
                   result, spawned, child_out, child_out0, stdout, out_pipe,
                   child_prog, child_pc>>

\* write_all inside copy_exact (lib.rs:331, 336): one write to the pipe,
\* which takes what fits and needs room for at least one byte
ParentWrite ==
    /\ pc = "body" /\ exit_status = "running"
    /\ Len(child_stdin) < content_length
    /\ ~ChildExited
    /\ Len(in_pipe) < PipeCapacity
    /\ LET k == Min(PipeCapacity - Len(in_pipe), ChunkLeft(Len(child_stdin)))
       IN  /\ in_pipe' = in_pipe \o Take(stdin, k)
           /\ child_stdin' = child_stdin \o Take(stdin, k)
           /\ stdin' = Drop(stdin, k)
    /\ UNCHANGED <<pc, exit_status, environ, content_length, stdin0, line, parsed,
                   result, spawned, child_out, child_out0, stdout, out_pipe,
                   child_prog, child_pc>>

\* the same write when the child has exited: the pipe has no reader, the
\* write fails and main exits through early_exit (lib.rs:278-281)
ParentWriteFails ==
    /\ pc = "body" /\ exit_status = "running"
    /\ Len(child_stdin) < content_length
    /\ ChildExited
    /\ stdin' = Drop(stdin, ChunkLeft(Len(child_stdin)))
    /\ result' = "WriteFailed"
    /\ early_exit(S500)
    /\ UNCHANGED <<pc, environ, content_length, stdin0, line, parsed, spawned,
                   child_stdin, child_out, child_out0, in_pipe, out_pipe,
                   child_prog, child_pc>>

\* copy_exact returns Ok and main takes the child's stdout (lib.rs:278-292);
\* c_stdin stays open
ParentBodyDone ==
    /\ pc = "body" /\ exit_status = "running"
    /\ Len(child_stdin) = content_length
    /\ result' = "Ok"
    /\ pc' = "scan"
    /\ UNCHANGED <<exit_status, environ, content_length, stdin, stdin0, line,
                   parsed, spawned, child_stdin, child_out, child_out0, stdout,
                   in_pipe, out_pipe, child_prog, child_pc>>

\* lib.rs:299-312: the line read_line has returned is parsed
ProcessLine(val) ==
    LET p == parse_header(val)
    IN  /\ parsed' = p
        /\ line' = <<>>
        /\ IF ~p.ok
           THEN early_exit(S500) /\ UNCHANGED pc
           ELSE IF p.key = K_STATUS
           THEN /\ stdout' = stdout \o HTTP_10 \o p.value \o CRLF
                /\ pc' = "relay"
                /\ UNCHANGED exit_status
           ELSE UNCHANGED <<pc, exit_status, stdout>>

\* read_line in the Status scan (lib.rs:293-298): it blocks while the pipe
\* is empty and the child lives, takes bytes up to a line feed, and returns
\* at a line feed or at end of output
ParentScan ==
    /\ pc = "scan" /\ exit_status = "running"
    /\ \/ /\ out_pipe # <<>>
          /\ LET r == read_line(out_pipe)
                 val == line \o r.line
             IN  /\ out_pipe' = r.rest
                 /\ child_out' = Drop(child_out, Len(r.line))
                 /\ IF val[Len(val)] = LF
                    THEN ProcessLine(val)
                    ELSE /\ line' = val
                         /\ UNCHANGED <<parsed, pc, exit_status, stdout>>
       \/ /\ out_pipe = <<>>
          /\ ChildExited
          /\ ProcessLine(line)
          /\ UNCHANGED <<out_pipe, child_out>>
    /\ UNCHANGED <<environ, content_length, stdin, stdin0, result, spawned,
                   child_stdin, child_out0, in_pipe, child_prog, child_pc>>

\* io::copy (lib.rs:314-320): what the pipe holds goes to standard output;
\* at end of output main returns
ParentRelay ==
    /\ pc = "relay" /\ exit_status = "running"
    /\ \/ /\ out_pipe # <<>>
          /\ stdout' = stdout \o out_pipe
          /\ out_pipe' = <<>>
          /\ child_out' = Drop(child_out, Len(out_pipe))
          /\ UNCHANGED <<pc, exit_status>>
       \/ /\ out_pipe = <<>>
          /\ ChildExited
          /\ pc' = "done"
          /\ exit_status' = "0"
          /\ UNCHANGED <<stdout, out_pipe, child_out>>
    /\ UNCHANGED <<environ, content_length, stdin, stdin0, line, parsed, result,
                   spawned, child_stdin, child_out0, in_pipe, child_prog, child_pc>>

\* the child reads what its input pipe holds
ChildRead ==
    /\ ChildPhase \in {"read_body", "read_to_eof"}
    /\ in_pipe # <<>>
    /\ in_pipe' = <<>>
    /\ UNCHANGED <<pc, exit_status, environ, content_length, stdin, stdin0, line,
                   parsed, result, spawned, child_stdin, child_out, child_out0,
                   stdout, out_pipe, child_prog, child_pc>>

\* the child writes to its output pipe what fits; the pipe must have room
\* for at least one byte
ChildWrite ==
    /\ ChildPhase = "write"
    /\ Unwritten # <<>>
    /\ c_stdout_open
    /\ Len(out_pipe) < PipeCapacity
    /\ out_pipe' = out_pipe \o Take(Unwritten, PipeCapacity - Len(out_pipe))
    /\ UNCHANGED <<pc, exit_status, environ, content_length, stdin, stdin0, line,
                   parsed, result, spawned, child_stdin, child_out, child_out0,
                   stdout, in_pipe, child_prog, child_pc>>

\* the child writes when the parent has exited: the signal for a pipe
\* without a reader ends it
ChildKilled ==
    /\ ChildPhase = "write"
    /\ Unwritten # <<>>
    /\ ~c_stdout_open
    /\ child_pc' = Len(child_prog) + 1
    /\ UNCHANGED <<pc, exit_status, environ, content_length, stdin, stdin0, line,
                   parsed, result, spawned, child_stdin, child_out, child_out0,
                   stdout, in_pipe, out_pipe, child_prog>>

\* the child's phase is over: it has read the bytes announced (or its
\* input ended), it has seen end of input, or it has written everything
ChildAdvance ==
    /\ \/ /\ ChildPhase = "read_body"
          /\ in_pipe = <<>>
          /\ Len(child_stdin) = content_length \/ ~c_stdin_open
       \/ /\ ChildPhase = "read_to_eof"
          /\ in_pipe = <<>>
          /\ ~c_stdin_open
       \/ /\ ChildPhase = "write"
          /\ Unwritten = <<>>
    /\ child_pc' = child_pc + 1
    /\ UNCHANGED <<pc, exit_status, environ, content_length, stdin, stdin0, line,
                   parsed, result, spawned, child_stdin, child_out, child_out0,
                   stdout, in_pipe, out_pipe, child_prog>>

ParentStep ==
    \/ ParentWrite
    \/ ParentWriteFails
    \/ ParentBodyDone
    \/ ParentScan
    \/ ParentRelay

ChildStep ==
    \/ ChildRead
    \/ ChildWrite
    \/ ChildKilled
    \/ ChildAdvance

NextPipes == ParentStep \/ ChildStep

\* Each process runs when it can: the scheduler starves neither.
SpecPipes ==
    InitPipes /\ [][NextPipes]_vars /\ WF_vars(ParentStep) /\ WF_vars(ChildStep)

---------------------------------------------------------------------------
(* Claims *)

\* C2: copy_exact(reader, writer, L) on a reader holding at least L bytes
\* returns Ok, has written exactly the first L bytes of the reader to the
\* writer and has consumed exactly L bytes of the reader; on a reader
\* holding fewer than L bytes it returns an error.
C2_CopyExact ==
    pc = "returned" =>
        IF Len(stdin0) >= content_length
        THEN /\ result = "Ok"
             /\ child_stdin = Take(stdin0, content_length)
             /\ Len(child_stdin) = content_length
             /\ stdin = Drop(stdin0, content_length)
        ELSE result # "Ok"

\* a length above the buffer size and not a multiple of it, from a longer reader
C2_Witness ==
    /\ pc = "returned"
    /\ content_length > BUFFER_SIZE
    /\ content_length % BUFFER_SIZE # 0
    /\ Len(stdin0) > content_length
    /\ result = "Ok"

---------------------------------------------------------------------------
(* What the claims say of a header line, read off the line itself *)

FirstColon(l) ==
    IF Contains(l, ":")
    THEN CHOOSE i \in 1..Len(l) : l[i] = ":" /\ ~Contains(Take(l, i - 1), ":")
    ELSE 0

\* the text before the first colon, and the text after it
NameOf(l) == Take(l, FirstColon(l) - 1)
AfterColon(l) == Drop(l, FirstColon(l))

\* upper-cased, every "-" replaced by "_"
Normalized(name) ==
    [i \in 1..Len(name) |->
        IF name[i] = "-" THEN "_" ELSE to_uppercase_char(name[i])]

RECURSIVE StripLeadingSpaces(_)
StripLeadingSpaces(v) ==
    IF v # <<>> /\ Head(v) = SP THEN StripLeadingSpaces(Tail(v)) ELSE v

\* a decimal numeral of a non-negative integer
IsNumeral(v) == v # <<>> /\ \A i \in 1..Len(v) : IsDigit(v[i])

\* a numeral, or "+" and a numeral: text that denotes a non-negative integer
DenotesNatural(v) ==
    IsNumeral(v) \/ (v # <<>> /\ Head(v) = "+" /\ IsNumeral(Tail(v)))

\* text that denotes a non-negative integer no larger than usize::MAX
DenotesUsize(v) ==
    DenotesNatural(v) /\ FitsUsize(IF Head(v) = "+" THEN Tail(v) ELSE v)

EndsWithLineEnd(v) == v # <<>> /\ v[Len(v)] \in {CR, LF}

\* C7: for every line Name ":" spaces Value CR (Name without ":"),
\* parse_header returns Ok((k, v)), k the Name upper-cased with "-" replaced
\* by "_", v the Value without its leading spaces and without the final CR.
C7_ParseHeaderWellFormed ==
    (pc = "returned" /\ Contains(line, ":") /\ line[Len(line)] = CR
                     /\ NameOf(line) # <<>>) =>
        LET rest == AfterColon(line)
        IN  /\ parsed.ok
            /\ parsed.key = Normalized(NameOf(line))
            /\ parsed.value = StripLeadingSpaces(Take(rest, Len(rest) - 1))

\* C9: when set_header returns an error it is the 400 class and neither the
\* environment nor content_length has changed; it returns an error exactly
\* for a line without ":" and for a CONTENT_LENGTH header whose value is no
\* non-negative integer that content_length can hold; parse_header fails
\* exactly for lines without ":".
C9_SetHeaderError ==
    [][(pc = "set_header" /\ pc' = "returned") =>
        /\ result' \in {"Ok", "Err400", "Panic"}
        /\ (result' = "Err400" =>
                environ' = environ /\ content_length' = content_length)
        /\ (result' = "Err400" <=>
                \/ ~Contains(line, ":")
                \/ /\ Normalized(NameOf(line)) = K_CONTENT_LENGTH
                   /\ ~DenotesUsize(parsed'.value))
        /\ (parsed'.ok <=> Contains(line, ":"))]_vars

\* a non-numeric Content-Length refused in an environment that holds variables
C9_Witness ==
    /\ pc = "returned"
    /\ result = "Err400"
    /\ parsed.ok
    /\ parsed.key = K_CONTENT_LENGTH
    /\ environ # EmptyEnv
    /\ content_length = 7

---------------------------------------------------------------------------
(* What the claims say of the byte streams, read off the streams themselves *)

\* the lines of s, each with its LF; the last one may lack it
RECURSIVE RawLines(_)
RawLines(s) ==
    IF s = <<>> THEN <<>>
    ELSE IF ~Contains(s, LF) THEN <<s>>
    ELSE LET n == CHOOSE i \in 1..Len(s) : s[i] = LF /\ ~Contains(Take(s, i - 1), LF)
         IN  <<Take(s, n)>> \o RawLines(Drop(s, n))

\* a raw line without its LF or CR LF
Unterminated(l) ==
    IF l # <<>> /\ l[Len(l)] = LF
    THEN LET m == Take(l, Len(l) - 1)
         IN  IF m # <<>> /\ m[Len(m)] = CR THEN Take(m, Len(m) - 1) ELSE m
    ELSE l

IsBlank(l) == l = <<LF>> \/ l = CRLF

\* index of the blank line that ends the header section of ls (the first
\* blank line after the request line), or 0
BlankIndex(ls) ==
    IF \E i \in 2..Len(ls) : IsBlank(ls[i])
    THEN CHOOSE i \in 2..Len(ls) : IsBlank(ls[i]) /\ \A j \in 2..(i - 1) : ~IsBlank(ls[j])
    ELSE 0

\* the header lines of a request: after the request line, up to the blank line
HeaderSection(s) ==
    LET ls == RawLines(s)
        b == BlankIndex(ls)
    IN  SubSeq(ls, 2, IF b = 0 THEN Len(ls) ELSE b - 1)

\* the bytes that follow the blank line
BodyOf(s) ==
    LET ls == RawLines(s)
        b == BlankIndex(ls)
    IN  IF b = 0 THEN <<>> ELSE Concat(SubSeq(ls, b + 1, Len(ls)))

\* standard input consumed so far
Consumed == Take(stdin0, Len(stdin0) - Len(stdin))

IsStatusLine(l) == Contains(l, ":") /\ Normalized(NameOf(l)) = K_STATUS
HasStatus(s) == \E i \in 1..Len(RawLines(s)) : IsStatusLine(RawLines(s)[i])
FirstStatus(ls) ==
    CHOOSE i \in 1..Len(ls) : IsStatusLine(ls[i]) /\ \A j \in 1..(i - 1) : ~IsStatusLine(ls[j])

Line400 == HTTP_10 \o S400 \o CRLF
Line500 == HTTP_10 \o S500 \o CRLF

ScenarioChildOutput == <<"S","t","a","t","u","s",":",SP,"2","0","0",SP,"O","K",CR,LF,CR,LF,"h","e","l","l","o">>
ScenarioResponse == <<"H","T","T","P","/","1",".","0",SP,"2","0","0",SP,"O","K",CR,LF,CR,LF,"h","e","l","l","o">>

C3_BodyRelayed ==
    /\ (pc = "spawn" \/ (pc = "body" /\ exit_status = "running")) =>
         stdin = BodyOf(stdin0)
    /\ pc \in {"scan", "relay", "done"} =>
         /\ child_stdin = Take(BodyOf(stdin0), content_length)
         /\ Len(child_stdin) = content_length
         /\ stdin = Drop(BodyOf(stdin0), content_length)
         /\ (\A i \in 1..Len(HeaderSection(stdin0)) :
                Normalized(NameOf(HeaderSection(stdin0)[i])) # K_CONTENT_LENGTH)
            => (content_length = 0 /\ child_stdin = <<>>)

\* three body bytes, one of them a line feed, relayed with one byte left over
C3_Witness ==
    /\ pc = "scan"
    /\ content_length = 1
    /\ child_stdin = <<"x">>
    /\ stdin = <<LF, "y">>

\* a header line without ":" is among the lines read so far
BadHeaderRead ==
    \E i \in 1..Len(HeaderSection(Consumed)) :
        ~Contains(HeaderSection(Consumed)[i], ":")

\* the status line and the relayed bytes of a response whose Status line
\* was found: <<status line, bytes after the Status line>>
ResponseParts ==
    LET ls == RawLines(child_out0)
        i == FirstStatus(ls)
    IN  <<HTTP_10 \o parse_header(ls[i]).value \o CRLF,
          Concat(SubSeq(ls, i + 1, Len(ls)))>>

C5_MalformedHeader ==
    /\ BadHeaderRead =>
         (stdout = Line400 /\ exit_status = "1" /\ ~spawned /\ pc = "headers")
    /\ (exit_status = "1" /\ stdout = Line400) => (~spawned /\ pc = "headers")

\* a line without ":" read after an accepted header
C5_Witness ==
    /\ BadHeaderRead
    /\ Len(HeaderSection(Consumed)) = 2
    /\ Contains(HeaderSection(Consumed)[1], ":")
    /\ stdout = Line400
    /\ ~spawned

\* C6: when the child's output has no line whose normalized name is STATUS,
\* the scan never leaves its loop, forwards nothing, gets shorter input at
\* every turn and ends with exactly the 500 line on standard output.
C6_NoStatus ==
    /\ []((pc \in {"scan", "relay", "done"} /\ ~HasStatus(child_out0)) =>
            /\ pc = "scan"
            /\ exit_status \in {"running", "1"}
            /\ stdout = IF exit_status = "running" THEN <<>> ELSE Line500)
    /\ [][(pc = "scan" /\ ~HasStatus(child_out0) /\ exit_status' = "running") =>
            Len(child_out') < Len(child_out)]_vars

\* the scan has failed at the end of an output of headers without Status
C6_Witness ==
    /\ pc = "scan"
    /\ ~HasStatus(child_out0)
    /\ child_out0 # <<>>
    /\ child_out = <<>>
    /\ line = <<>>
    /\ exit_status = "1"
    /\ stdout = Line500

\* C8: the value parse_header returns for an accepted line ends with neither
\* CR nor LF, whether the line ends in CR LF, in LF or at end of input; the
\* status line for a child line "Status: <v>" is "HTTP/1.0 <v>" CR LF.
C8_ValueWithoutLineEnd ==
    /\ parsed.ok => ~EndsWithLineEnd(parsed.value)
    /\ pc \in {"relay", "done"} =>
         IsPrefix(HTTP_10 \o StripLeadingSpaces(AfterColon(Unterminated(line))) \o CRLF,
                  stdout)

---------------------------------------------------------------------------
(* Content-Length *)

\* a step of the header loop that handed a line to set_header
HeaderStep == pc = "headers" /\ pc' = "headers" /\ stdin' # stdin

\* the number such a text denotes
NumericValue(v) == DecimalValue(IF Head(v) = "+" THEN Tail(v) ELSE v)

HasContentLength(s) ==
    \E i \in 1..Len(HeaderSection(s)) :
        Normalized(NameOf(HeaderSection(s)[i])) = K_CONTENT_LENGTH

\* once the body relay is over, the child has been sent as many bytes as
\* the CONTENT_LENGTH variable it inherited says
RelayedAsAnnounced ==
    (pc \in {"scan", "relay", "done"} /\ HasContentLength(stdin0)) =>
        /\ K_CONTENT_LENGTH \in DOMAIN environ
        /\ DenotesNatural(environ[K_CONTENT_LENGTH])
        /\ Len(child_stdin) = NumericValue(environ[K_CONTENT_LENGTH])

\* C11 as stated: a header whose name normalizes to CONTENT_LENGTH and
\* whose value is the numeral of a non-negative integer n sets content_length
\* to n and CONTENT_LENGTH to the value text, so that the body bytes relayed
\* to the child number what CONTENT_LENGTH says; a value that denotes no
\* non-negative integer yields the 400 failure.
C11_ContentLength ==
    /\ [][(HeaderStep /\ Normalized(NameOf(line')) = K_CONTENT_LENGTH) =>
            LET v == parsed'.value
            IN  /\ IsNumeral(v) =>
                      /\ result' = "Ok"
                      /\ content_length' = DecimalValue(v)
                      /\ environ'[K_CONTENT_LENGTH] = v
                /\ ~DenotesNatural(v) =>
                      (result' = "Err400" /\ stdout' = Line400 /\ exit_status' = "1")]_vars
    /\ []RelayedAsAnnounced

\* C11, amended: the same for every n up to usize::MAX; a numeral above
\* usize::MAX yields the 400 failure like a value that is no number, and
\* leaves content_length and the environment as they were.
C11_ContentLengthInRange ==
    /\ [][(HeaderStep /\ Normalized(NameOf(line')) = K_CONTENT_LENGTH) =>
            LET v == parsed'.value
            IN  /\ (IsNumeral(v) /\ FitsUsize(v)) =>
                      /\ result' = "Ok"
                      /\ content_length' = DecimalValue(v)
                      /\ environ'[K_CONTENT_LENGTH] = v
                /\ (~DenotesNatural(v) \/ (IsNumeral(v) /\ ~FitsUsize(v))) =>
                      /\ result' = "Err400" /\ stdout' = Line400 /\ exit_status' = "1"
                      /\ content_length' = content_length
                      /\ environ' = environ]_vars
    /\ []RelayedAsAnnounced

\* three body bytes announced, three relayed
C11_Witness ==
    /\ pc = "scan"
    /\ content_length = 3
    /\ K_CONTENT_LENGTH \in DOMAIN environ
    /\ environ[K_CONTENT_LENGTH] = <<"3">>
    /\ child_stdin = <<"x", LF, "y">>

---------------------------------------------------------------------------
(* The request line *)

\* index of the first character of s that is in cs, or 0
FirstOf(s, cs) ==
    IF \E i \in 1..Len(s) : s[i] \in cs
    THEN CHOOSE i \in 1..Len(s) : s[i] \in cs /\ \A j \in 1..(i - 1) : s[j] \notin cs
    ELSE 0

\* s up to its first character in cs (all of s without one), and what
\* follows that character (nothing without one)
UpTo(s, cs) == IF FirstOf(s, cs) = 0 THEN s ELSE Take(s, FirstOf(s, cs) - 1)
After(s, cs) == IF FirstOf(s, cs) = 0 THEN <<>> ELSE Drop(s, FirstOf(s, cs))

\* `text` SP `text` SP `text` CR LF, the texts free of SP, CR and LF
IsRequestLine(l) ==
    /\ Len(l) >= 2
    /\ SubSeq(l, Len(l) - 1, Len(l)) = CRLF
    /\ LET t == Take(l, Len(l) - 2)
       IN  /\ Cardinality({i \in 1..Len(t) : t[i] = SP}) = 2
           /\ \A i \in 1..Len(t) : t[i] \notin {CR, LF}

\* the three texts of a request line
RequestTexts(l) ==
    LET t == Take(l, Len(l) - 2)
        s1 == FirstOf(t, {SP})
        u == Drop(t, s1)
        s2 == FirstOf(u, {SP})
    IN  <<Take(t, s1 - 1), Take(u, s2 - 1), Drop(u, s2)>>

\* what each state of the scan has gathered when the line ends, wherever
\* that is
Accumulated(l) ==
    LET r1 == After(l, {SP})
        k == FirstOf(r1, {"?", SP})
        r2 == After(r1, {"?", SP})
        has_query == k > 0 /\ r1[k] = "?"
        r3 == IF has_query THEN After(r2, {SP}) ELSE r2
    IN  [method |-> UpTo(l, {SP}),
         path_info |-> UpTo(r1, {"?", SP}),
         query_string |-> IF has_query THEN UpTo(r2, {SP}) ELSE <<>>,
         server_protocol |-> UpTo(r3, {CR, LF})]

\* C12: for a request line METHOD SP PATH "?" QUERY SP PROTOCOL CR LF,
\* set_request leaves REQUEST_METHOD = METHOD, PATH_INFO = PATH,
\* QUERY_STRING = QUERY, SERVER_PROTOCOL = PROTOCOL; without a "?" the
\* middle text is PATH_INFO and QUERY_STRING is empty; SCRIPT_NAME is always
\* empty; a line that ends early yields what was gathered so far, never an
\* error, and no other variable changes.
C12_SetRequest ==
    [][(pc = "set_request" /\ pc' = "returned") =>
        /\ result' = "Ok" /\ exit_status' = "running"
        /\ DOMAIN environ' = DOMAIN environ \cup
              {K_REQUEST_METHOD, K_SCRIPT_NAME, K_PATH_INFO, K_QUERY_STRING,
               K_SERVER_PROTOCOL}
        /\ environ'[K_SCRIPT_NAME] = <<>>
        /\ IsRequestLine(line) =>
              LET t == RequestTexts(line)
                  q == FirstOf(t[2], {"?"})
              IN  /\ environ'[K_REQUEST_METHOD] = t[1]
                  /\ environ'[K_SERVER_PROTOCOL] = t[3]
                  /\ IF q > 0
                     THEN /\ environ'[K_PATH_INFO] = Take(t[2], q - 1)
                          /\ environ'[K_QUERY_STRING] = Drop(t[2], q)
                     ELSE /\ environ'[K_PATH_INFO] = t[2]
                          /\ environ'[K_QUERY_STRING] = <<>>
        /\ LET a == Accumulated(line)
           IN  /\ environ'[K_REQUEST_METHOD] = a.method
               /\ environ'[K_PATH_INFO] = a.path_info
               /\ environ'[K_QUERY_STRING] = a.query_string
               /\ environ'[K_SERVER_PROTOCOL] = a.server_protocol]_vars

\* a line without a query whose method holds a "?"
C12_Witness ==
    /\ pc = "returned"
    /\ line = <<"G", "?", SP, "/", SP, "H", CR, LF>>
    /\ environ[K_REQUEST_METHOD] = <<"G", "?">>
    /\ environ[K_PATH_INFO] = <<"/">>
    /\ environ[K_QUERY_STRING] = <<>>
    /\ environ[K_SERVER_PROTOCOL] = <<"H">>

---------------------------------------------------------------------------
(* End of input *)

\* standard input ends before the blank line that closes the header
\* section: before the request line, inside it, or among the headers
EndsBeforeBlankLine(s) == BlankIndex(RawLines(s)) = 0

\* C13: when standard input ends where a line was expected (before the
\* request line, or in the header section before its blank line), the
\* exchange is a server error: no child is spawned, and once the input is
\* used up the response is the 500 line and the process has terminated.
C13_EndOfInputIsServerError ==
    EndsBeforeBlankLine(stdin0) =>
        /\ ~spawned
        /\ pc \in {"start", "request", "headers"}
        /\ (pc = "headers" /\ stdin = <<>> /\ exit_status = "1") =>
              stdout \in {Line400, Line500}

---------------------------------------------------------------------------
(* Status lines on standard output *)

\* the positions of s at which the text p starts
Occurrences(p, s) ==
    {i \in 1..(Len(s) - Len(p) + 1) : SubSeq(s, i, i + Len(p) - 1) = p}

\* how many "HTTP/1.0 " status lines standard output holds (no modelled
\* child emits that text itself)
StatusLinesWritten == Cardinality(Occurrences(HTTP_10, stdout))

EndsWith(s, t) == Len(t) <= Len(s) /\ SubSeq(s, Len(s) - Len(t) + 1, Len(s)) = t

---------------------------------------------------------------------------
(* The two pipes *)

\* C15: the parent closes the write end of the child's input pipe once the
\* body relay has finished, so a child that reads its standard input to end
\* of input and only then writes "Status: ..." and its body sees the end of
\* input, and under fair scheduling the parent reaches the end of the final
\* relay.
C15_ExchangeCompletes ==
    (child_prog = ReadToEofThenWrite /\ IsStatusLine(RawLines(child_out0)[1]))
        ~> (pc = "done")

\* the parent is blocked writing the body to the child's full input pipe
\* while the child is blocked writing to its full output pipe
PipesBlocked ==
    /\ pc = "body" /\ exit_status = "running"
    /\ Len(child_stdin) < content_length
    /\ Len(in_pipe) = PipeCapacity
    /\ ChildPhase = "write"
    /\ Unwritten # <<>>
    /\ Len(out_pipe) = PipeCapacity

\* the child writes its output before it reads any input
WritesFirst == child_prog # <<>> /\ child_prog[1] = "write"

\* C16: with pipes of capacity PipeCapacity, when the body is longer than
\* the capacity and the child writes more than the capacity before it
\* reads its input, the parent never gets past the body relay, and where
\* both are blocked on full pipes no step is possible any more; a child
\* that reads its whole input first, or whose output fits the pipe, never
\* gets there.
C16_PipeDeadlock ==
    /\ PipesBlocked => ~ENABLED NextPipes
    /\ PipesBlocked =>
         /\ content_length > PipeCapacity
         /\ Len(child_out0) > PipeCapacity
         /\ WritesFirst
    /\ (WritesFirst /\ content_length > PipeCapacity /\ Len(child_out0) > PipeCapacity) =>
         (pc = "body" /\ exit_status = "running" /\ ~ChildExited)

\* both blocked, the child being one that would read the body afterwards
C16_Witness ==
    /\ PipesBlocked
    /\ child_prog = WriteThenRead
    /\ Len(stdin) = 1
    /\ Len(Unwritten) = 2

---------------------------------------------------------------------------
(* The order of the stages *)

StageRank(p) ==
    CASE p = "start" -> 0
      [] p = "request" -> 1
      [] p = "headers" -> 2
      [] p = "spawn" -> 3
      [] p = "body" -> 4
      [] p = "scan" -> 5
      [] p = "relay" -> 6
      [] p = "done" -> 7

\* C17: the stages come in the order request line, headers, spawn, body
\* relay, Status scan, final relay, none skipped and none re-entered: the
\* child is spawned only once the header section is used up, standard input
\* is read only up to the body relay, the child's input is written only
\* before its output is first read, its output is read only after all
\* content_length bytes were written, and no line is parsed once a status
\* line is out.
C17_StageOrder ==
    [][/\ StageRank(pc') \in {StageRank(pc), StageRank(pc) + 1}
       /\ (spawned' /\ ~spawned) => (pc = "spawn" /\ stdin = BodyOf(stdin0))
       /\ stdin' # stdin => pc \in {"request", "headers", "body"}
       /\ child_stdin' # child_stdin =>
             (pc = "body" /\ child_out = child_out0 /\ child_out' = child_out)
       /\ Len(child_out') < Len(child_out) =>
             /\ pc \in {"scan", "relay"}
             /\ Len(child_stdin) = content_length
             /\ child_stdin' = child_stdin
       /\ stdout # <<>> => (line' = line /\ parsed' = parsed)]_vars

\* an exchange with a body has gone through every stage
C17_Witness ==
    /\ pc = "done"
    /\ content_length = 3
    /\ child_stdin = <<"x", LF, "y">>
    /\ Len(HeaderSection(stdin0)) = 2
    /\ stdout = ScenarioResponse

---------------------------------------------------------------------------
(* The Status pseudo-header *)

\* C18: the status line carries the value of the first line of the child's
\* output whose normalized name is STATUS, whatever its case; the scan has
\* read nothing beyond that line, and every later line of that form goes to
\* the client as it is, in its place in the remainder, without giving a
\* status line of its own.
C18_FirstStatusOnly ==
    pc \in {"relay", "done"} =>
        LET ls == RawLines(child_out0)
            i == FirstStatus(ls)
            rest == Concat(SubSeq(ls, i + 1, Len(ls)))
        IN  /\ line = ls[i]
            /\ parsed.key = K_STATUS
            /\ (pc = "relay" /\ exit_status = "running") =>
                  (child_out = rest /\ stdout = HTTP_10 \o parsed.value \o CRLF)
            /\ pc = "done" =>
                  /\ Drop(stdout, Len(HTTP_10 \o parsed.value \o CRLF)) = rest
                  /\ StatusLinesWritten = 1
                  /\ \A j \in (i + 1)..Len(ls) :
                        IsStatusLine(ls[j]) =>
                          LET before == HTTP_10 \o parsed.value \o CRLF
                                          \o Concat(SubSeq(ls, i + 1, j - 1))
                          IN  SubSeq(stdout, Len(before) + 1, Len(before) + Len(ls[j]))
                                = ls[j]

\* a lower-case status line consulted, a second Status line relayed as it is
C18_Witness ==
    /\ pc = "done"
    /\ child_out0 = <<"s","t","a","t","u","s",":","2",LF,
                      "S","t","a","t","u","s",":",SP,"2","0","0",SP,"O","K",CR,LF>>
    /\ stdout = HTTP_10 \o <<"2",LF>> \o CRLF
                  \o <<"S","t","a","t","u","s",":",SP,"2","0","0",SP,"O","K",CR,LF>>

---------------------------------------------------------------------------
(* content_length over the header phase *)

\* C19: content_length starts at 0 and is assigned at most once in the
\* header phase, however many headers normalize to CONTENT_LENGTH: once
\* such a header was read no later one gives it another value; a header of
\* another name never changes it.
C19_AssignedOnce ==
    /\ [](pc \in {"start", "request"} => content_length = 0)
    /\ [][HeaderStep =>
            IF Normalized(NameOf(line')) = K_CONTENT_LENGTH
            THEN HasContentLength(Consumed) => content_length' = content_length
            ELSE content_length' = content_length]_vars

---------------------------------------------------------------------------
(* The environment at spawn *)

\* the variable a header of the given name is stored under
VariableOf(name) ==
    LET n == Normalized(name)
    IN  IF n \in {K_CONTENT_TYPE, K_CONTENT_LENGTH} THEN n ELSE HTTP_ \o n

HeaderValue(l) == StripLeadingSpaces(AfterColon(Unterminated(l)))

\* the request line of the input, empty when the input is
RequestLineOf(s) == IF s = <<>> THEN <<>> ELSE RawLines(s)[1]

\* C20: when the child is spawned the environment holds GATEWAY_INTERFACE,
\* SERVER_SOFTWARE, SERVER_NAME and SERVER_PORT (TCPLOCALIP and TCPLOCALPORT
\* when given, else 127.0.0.1 and 80, each on its own), the five variables
\* of the request line and, for every header read, its variable with the
\* value of the last header stored under it; no step from the spawn on
\* changes the environment.
C20_EnvironmentAtSpawn ==
    /\ [](spawned =>
            LET a == Accumulated(RequestLineOf(stdin0))
                hs == HeaderSection(stdin0)
            IN  /\ {K_GATEWAY_INTERFACE, K_SERVER_SOFTWARE, K_SERVER_NAME,
                     K_SERVER_PORT, K_REQUEST_METHOD, K_SCRIPT_NAME, K_PATH_INFO,
                     K_QUERY_STRING, K_SERVER_PROTOCOL} \subseteq DOMAIN environ
                /\ environ[K_GATEWAY_INTERFACE] = <<"C","G","I","/","1",".","1">>
                /\ environ[K_SERVER_SOFTWARE] = <<"c","g","i","d","/","0",".","1",".","0">>
                /\ environ[K_SERVER_NAME] =
                      IF K_TCPLOCALIP \in DOMAIN environ THEN environ[K_TCPLOCALIP]
                      ELSE <<"1","2","7",".","0",".","0",".","1">>
                /\ environ[K_SERVER_PORT] =
                      IF K_TCPLOCALPORT \in DOMAIN environ THEN environ[K_TCPLOCALPORT]
                      ELSE <<"8","0">>
                /\ environ[K_REQUEST_METHOD] = a.method
                /\ environ[K_SCRIPT_NAME] = <<>>
                /\ environ[K_PATH_INFO] = a.path_info
                /\ environ[K_QUERY_STRING] = a.query_string
                /\ environ[K_SERVER_PROTOCOL] = a.server_protocol
                /\ \A i \in 1..Len(hs) :
                      LET k == VariableOf(NameOf(hs[i]))
                          last == CHOOSE j \in i..Len(hs) :
                                    /\ VariableOf(NameOf(hs[j])) = k
                                    /\ \A m \in (j + 1)..Len(hs) :
                                          VariableOf(NameOf(hs[m])) # k
                      IN  k \in DOMAIN environ /\ environ[k] = HeaderValue(hs[last]))
    /\ [][(spawned \/ pc \notin {"start", "request", "headers"}) =>
            environ' = environ]_vars

\* spawned with TCPLOCALIP given and TCPLOCALPORT not, after one header
C20_Witness ==
    /\ spawned
    /\ pc = "body"
    /\ K_TCPLOCALIP \in DOMAIN environ
    /\ K_TCPLOCALPORT \notin DOMAIN environ
    /\ environ[K_SERVER_NAME] = <<"1","0",".","0",".","0",".","7">>
    /\ environ[K_SERVER_PORT] = <<"8","0">>
    /\ environ[K_QUERY_STRING] = <<"x","=","1">>
    /\ environ[K_CONTENT_LENGTH] = <<"0">>

===========================================================================
